---- MODULE Spec2Model ----
(***************************************************************************)
(* A model of kmwenja/spew (spew.go): the supervisor Spew, the timer and   *)
(* listener source drivers, the line readers and the shared cancellation   *)
(* signal.  Strings are sequences of one-character strings.  A channel     *)
(* operation of a select is one action of the model; when several cases of *)
(* a select are ready, any of them may be taken, as the Go specification   *)
(* allows.                                                                 *)
(***************************************************************************)
EXTENDS Integers, Sequences, FiniteSets, TLC

\* ------------------------------------------------------------------ bounds
MaxRuns == 2      \* command runs of one timer source
MaxLines == 2     \* lines a listener's subprocess writes to one stream
MaxZeros == 1     \* zero values a listener takes from closed reader channels
MaxLen == 3       \* length of the text a printing script writes

\* ----------------------------------------------------------------- strings
Letters == <<"a", "b", "c", "d", "e", "f">>
Digits == <<"1", "2", "3", "4", "5", "6">>

LowerCase == {"a", "b", "c", "d", "e", "f", "g", "h", "i", "l", "m", "n", "o",
              "p", "r", "s", "t", "x"}
UpperCase == {"A", "B"}

\* strings.Contains(s, sub)
Contains(s, sub) ==
  \E i \in 0..(Len(s) - Len(sub)) : SubSeq(s, i + 1, i + Len(sub)) = sub

\* strings.Split(s, sep) for a one-character separator
RECURSIVE SplitFrom(_, _, _)
SplitFrom(s, sep, cur) ==
  IF s = <<>> THEN <<cur>>
  ELSE IF Head(s) = sep THEN <<cur>> \o SplitFrom(Tail(s), sep, <<>>)
  ELSE SplitFrom(Tail(s), sep, Append(cur, Head(s)))

Split(s, sep) == SplitFrom(s, sep, <<>>)

\* time.ParseDuration on the grammar (digits unit)+ with the units s and m,
\* and the literal "0"; [ok |-> FALSE] is a parse error
DigitValue(c) == CHOOSE n \in 0..9 : <<"0", "1", "2", "3", "4", "5", "6", "7", "8", "9">>[n + 1] = c
IsDigit(c) == c \in {"0", "1", "2", "3", "4", "5", "6", "7", "8", "9"}
UnitValue(c) == IF c = "s" THEN 1 ELSE 60
IsUnit(c) == c \in {"s", "m"}

RECURSIVE ParseGroups(_, _, _, _)
ParseGroups(s, num, seen, total) ==
  IF s = <<>> THEN [ok |-> ~seen /\ total >= 0 /\ num = 0, d |-> total]
  ELSE IF IsDigit(Head(s)) THEN ParseGroups(Tail(s), num * 10 + DigitValue(Head(s)), TRUE, total)
  ELSE IF IsUnit(Head(s)) /\ seen THEN ParseGroups(Tail(s), 0, FALSE, total + num * UnitValue(Head(s)))
  ELSE [ok |-> FALSE, d |-> 0]

ParseDuration(s) ==
  IF s = <<"0">> THEN [ok |-> TRUE, d |-> 0]
  ELSE IF s = <<>> THEN [ok |-> FALSE, d |-> 0]
  ELSE ParseGroups(s, 0, FALSE, 0)

\* strings.Title: the first letter of every word is upper-cased
IsSeparator(c) == ~(c \in LowerCase \/ c \in UpperCase \/ IsDigit(c) \/ c = "_")
ToUpper(c) == IF c = "a" THEN "A" ELSE IF c = "b" THEN "B" ELSE c

Title(s) ==
  [i \in 1..Len(s) |->
     IF i = 1 \/ IsSeparator(s[IF i = 1 THEN 1 ELSE i - 1]) THEN ToUpper(s[i]) ELSE s[i]]

\* strings.ReplaceAll(s, old, "") for a one-character old
RemoveAll(s, c) == SelectSeq(s, LAMBDA x : x # c)

\* sanitize without its second ReplaceAll
sanitize_keepCR(s) == RemoveAll(s, "\n")

sanitize(s) == RemoveAll(RemoveAll(s, "\n"), "\r")

\* ----------------------------------------------------------- configuration
T_once == <<"o", "n", "c", "e">>
T_listen == <<"l", "i", "s", "t", "e", "n">>
T_timer5s == <<"t", "i", "m", "e", "r", ":", "5", "s">>
T_timer0s == <<"t", "i", "m", "e", "r", ":", "0", "s">>
T_timer == <<"t", "i", "m", "e", "r">>
T_timerx == <<"t", "i", "m", "e", "r", ":", "x">>
T_polling == <<"p", "o", "l", "l", "i", "n", "g">>

Types == {T_once, T_listen, T_timer5s, T_timer0s, T_timer, T_timerx, T_polling}
Names == {<<"a">>, <<"b">>}
Scripts == {<<"s", "h">>}

Source == [Name : Names, Type : Types, Script : Scripts]

\* the configurations: no source, one source, or two sources with at most one
\* listener between them; the first source is named "a"
Config ==
  {c \in {<<>>} \cup {<<x>> : x \in Source} \cup {<<x, y>> : x \in Source, y \in Source} :
     /\ c # <<>> => c[1].Name = <<"a">>
     /\ ~(Len(c) = 2 /\ c[1].Type = T_listen /\ c[2].Type = T_listen)}

\* the template: the fields it references, in order
Template == <<<<"A">>, <<"B">>>>
NoValue == <<"<", ">">>

\* SourceKind without its once case
SourceKind_noOnce(s) ==
  IF Contains(s.Type, <<"t", "i", "m", "e", "r">>) THEN "timer"
  ELSE IF Contains(s.Type, <<"l", "i", "s", "t", "e", "n">>) THEN "listen"
  ELSE "unknown"

\* SourceKind with the once case tried first
SourceKind_onceFirst(s) ==
  IF Contains(s.Type, <<"o", "n", "c", "e">>) THEN "once"
  ELSE IF Contains(s.Type, <<"t", "i", "m", "e", "r">>) THEN "timer"
  ELSE IF Contains(s.Type, <<"l", "i", "s", "t", "e", "n">>) THEN "listen"
  ELSE "unknown"

\* the switch of Spew's dispatch loop
SourceKind(s) ==
  IF Contains(s.Type, <<"t", "i", "m", "e", "r">>) THEN "timer"
  ELSE IF Contains(s.Type, <<"l", "i", "s", "t", "e", "n">>) THEN "listen"
  ELSE IF Contains(s.Type, <<"o", "n", "c", "e">>) THEN "once"
  ELSE "unknown"

\* template.Execute on the value table
Execute(t) ==
  [i \in 1..Len(Template) |-> IF Template[i] \in DOMAIN t THEN t[Template[i]] ELSE NoValue]

\* Store that forgets the other keys
Store_forget(t, key, value) == (key :> value)

\* templateCtx[key] = value
Store(t, key, value) == (key :> value) @@ t

\* ---------------------------------------------------------- error values
NoResult == <<"none", 0>>
Nil == <<"nil", 0>>
Err(kind, i) == <<kind, i>>

\* what the subprocesses print
CmdOutput(k) == <<Digits[k], "\r", "\n">>

\* the output of /bin/sh -c script: the script "sh" prints its k-th answer,
\* any other script prints its own text
RunOutput(script, k) == IF script = <<"s", "h">> THEN CmdOutput(k) ELSE script
StreamLine(s, k) == IF s = "out" THEN <<Letters[k], "\n">> ELSE <<"!", Letters[k], "\n">>
Streams == {"out", "err"}

\* ------------------------------------------------------------------- state
VARIABLES
  cfg,            \* c: the sources of the configuration (c.Sources)
  pcS,            \* where Spew is
  idx,            \* the source Spew's dispatch loop is at
  result,         \* what Spew returned (NoResult while it runs)
  table,          \* templateCtx
  out,            \* the renders written to w, in order
  mainCancelled,  \* mainCtx is cancelled
  cancelCalled,   \* cancel() of the derived context was called
  panicked,       \* the source whose driver goroutine panicked (0: none); the process is gone
  pc,             \* where the driver goroutine of each source is
  val,            \* the record value a driver holds (o, line)
  perr,           \* the error a driver holds
  runs,           \* the command runs a timer driver has started
  proc,           \* a listener's subprocess
  rpc,            \* where each line reader goroutine is
  ridx,           \* the lines a reader has read
  \* history
  gen,            \* per source: the record values its driver produced
  recv,           \* per source: the record values Spew received
  onceRan,        \* the once sources whose command was started
  attempts,       \* calls of render
  errs            \* per source: the errors its driver has sent on errChan

vars == <<cfg, pcS, idx, result, table, out, mainCancelled, cancelCalled, panicked,
          pc, val, perr, runs, proc, rpc, ridx,
          gen, recv, onceRan, attempts, errs>>

supVars == <<pcS, idx, result, table, out, cancelCalled>>
drvVars == <<pc, val, perr, runs>>
rdrVars == <<proc, rpc, ridx>>
supHist == <<recv, onceRan, attempts>>

Srcs == DOMAIN cfg

\* a panic of any goroutine ends the process
crashed == panicked # 0

\* ctx.Done() is closed
CtxDone == mainCancelled \/ cancelCalled

\* the state when Spew is called with a configuration of the set C
InitFrom(C) ==
  /\ cfg \in C
  /\ pcS = "parse"
  /\ idx = 1
  /\ result = NoResult
  /\ table = <<>>
  /\ out = <<>>
  /\ mainCancelled = FALSE
  /\ cancelCalled = FALSE
  /\ panicked = 0
  /\ pc = [i \in DOMAIN cfg |-> "idle"]
  /\ val = [i \in DOMAIN cfg |-> <<>>]
  /\ perr = [i \in DOMAIN cfg |-> Nil]
  /\ runs = [i \in DOMAIN cfg |-> 0]
  /\ proc = [i \in DOMAIN cfg |-> "none"]
  /\ rpc = [i \in DOMAIN cfg |-> [s \in Streams |-> "idle"]]
  /\ ridx = [i \in DOMAIN cfg |-> [s \in Streams |-> 0]]
  /\ gen = [i \in DOMAIN cfg |-> <<>>]
  /\ recv = [i \in DOMAIN cfg |-> <<>>]
  /\ onceRan = {}
  /\ attempts = 0
  /\ errs = [i \in DOMAIN cfg |-> 0]

Init == InitFrom(Config)


\* ---------------------------------------------------------------- Spew
\* exec.CommandContext: a started subprocess runs until ctx is done, when it is killed
Running(p) == proc[p] = "started" /\ ~CtxDone

\* Return with cancel() called on the nil return only, not deferred
Return_noDefer(e) ==
  /\ result' = e
  /\ pcS' = "returned"
  /\ cancelCalled' = (e = Nil)

\* return e, with the deferred cancel()
Return(e) ==
  /\ result' = e
  /\ pcS' = "returned"
  /\ cancelCalled' = TRUE

\* StoreRecord without sanitize
StoreRecord_unsanitized(name, value) ==
  table' = Store(table, Title(name), value)

\* StoreRecord under the name as configured, not Title(name)
StoreRecord_untitled(name, value) ==
  table' = Store(table, name, sanitize(value))

\* templateCtx[strings.Title(name)] = sanitize(value)
StoreRecord(name, value) ==
  table' = Store(table, Title(name), sanitize(value))

\* template.New("spew").Parse(c.Template)
ParseTemplate ==
  /\ ~crashed
  /\ pcS = "parse"
  /\ \E ok \in BOOLEAN :
       IF ok THEN /\ pcS' = "dispatch"
                  /\ UNCHANGED <<result, cancelCalled>>
             ELSE /\ pcS' = "returned"
                  /\ result' = Err("template", 0)
                  /\ UNCHANGED cancelCalled
  /\ UNCHANGED <<cfg, errs, idx, table, out, mainCancelled, panicked, drvVars, rdrVars,
                 gen, supHist>>

\* one iteration of for _, s := range c.Sources
Dispatch ==
  /\ ~crashed
  /\ pcS = "dispatch"
  /\ IF idx > Len(cfg)
       THEN /\ pcS' = "select"
            /\ UNCHANGED <<idx, result, cancelCalled, pc, onceRan>>
       ELSE CASE SourceKind(cfg[idx]) = "timer" ->
                   /\ pc' = [pc EXCEPT ![idx] = "t_begin"]
                   /\ idx' = idx + 1
                   /\ UNCHANGED <<pcS, result, cancelCalled, onceRan>>
              [] SourceKind(cfg[idx]) = "listen" ->
                   /\ pc' = [pc EXCEPT ![idx] = "l_begin"]
                   /\ idx' = idx + 1
                   /\ UNCHANGED <<pcS, result, cancelCalled, onceRan>>
              [] SourceKind(cfg[idx]) = "once" ->
                   \* runCommand: the command is not started when ctx is done
                   IF CtxDone
                     THEN /\ Return(Err("once", idx))
                          /\ UNCHANGED <<idx, pc, onceRan>>
                     ELSE /\ pcS' = "once_run"
                          /\ onceRan' = onceRan \cup {idx}
                          /\ UNCHANGED <<idx, result, cancelCalled, pc>>
              [] OTHER ->
                   /\ Return(Err("unsupported", idx))
                   /\ UNCHANGED <<idx, pc, onceRan>>
  /\ UNCHANGED <<cfg, errs, table, out, mainCancelled, panicked, val, perr, runs, rdrVars,
                 gen, recv, attempts>>

\* the once command ends: killed or failed, or its output is stored
OnceFinish ==
  /\ ~crashed
  /\ pcS = "once_run"
  /\ \E ok \in BOOLEAN :
       IF ok THEN /\ StoreRecord(cfg[idx].Name, RunOutput(cfg[idx].Script, idx))
                  /\ pcS' = "render_once"
                  /\ UNCHANGED <<result, cancelCalled>>
             ELSE /\ Return(Err("once", idx))
                  /\ UNCHANGED table
  /\ UNCHANGED <<cfg, errs, idx, out, mainCancelled, panicked, drvVars, rdrVars,
                 gen, recv, onceRan, attempts>>

\* render(), after a once result or after a record
Render ==
  /\ ~crashed
  /\ pcS \in {"render_once", "render_rec"}
  /\ attempts' = attempts + 1
  /\ \E ok \in BOOLEAN :
       IF ok THEN /\ out' = Append(out, Execute(table))
                  /\ pcS' = IF pcS = "render_once" THEN "dispatch" ELSE "select"
                  /\ idx' = IF pcS = "render_once" THEN idx + 1 ELSE idx
                  /\ UNCHANGED <<result, cancelCalled>>
             ELSE /\ Return(Err("render", 0))
                  /\ UNCHANGED <<out, idx>>
  /\ UNCHANGED <<cfg, errs, table, mainCancelled, panicked, drvVars, rdrVars,
                 gen, recv, onceRan>>

\* SelectDone that does not wait for ctx to be done
SelectDone_always ==
  /\ ~crashed
  /\ pcS = "select"
  /\ Return(Nil)
  /\ UNCHANGED <<cfg, errs, idx, table, out, mainCancelled, panicked, drvVars, rdrVars,
                 gen, supHist>>

\* case <-ctx.Done(): return nil
SelectDone ==
  /\ ~crashed
  /\ pcS = "select"
  /\ CtxDone
  /\ Return(Nil)
  /\ UNCHANGED <<cfg, errs, idx, table, out, mainCancelled, panicked, drvVars, rdrVars,
                 gen, supHist>>

\* RecvErr with a driver that does not return after its send
RecvErr_noReturn(p) ==
  /\ ~crashed
  /\ pcS = "select"
  /\ pc[p] \in {"t_err", "l_err"}
  /\ Return(perr[p])
  /\ errs' = [errs EXCEPT ![p] = @ + 1]
  /\ UNCHANGED <<cfg, idx, table, out, mainCancelled, panicked, drvVars, rdrVars,
                 gen, supHist>>

\* case e := <-errChan: return e, with the driver's errChan <- e
RecvErr(p) ==
  /\ ~crashed
  /\ pcS = "select"
  /\ pc[p] \in {"t_err", "l_err"}
  /\ Return(perr[p])
  /\ pc' = [pc EXCEPT ![p] = "done"]
  /\ errs' = [errs EXCEPT ![p] = @ + 1]
  /\ UNCHANGED <<cfg, idx, table, out, mainCancelled, panicked, val, perr, runs, rdrVars,
                 gen, supHist>>

\* AfterSend of a driver that goes round to the same send again
AfterSend_resend(p) ==
  CASE pc[p] = "l_send" -> "l_send"
    [] pc[p] = "t_send" -> IF runs[p] = 1 THEN "t_newticker" ELSE "t_tick"
    [] OTHER -> "done"

\* where a driver goes once its outChan <- output{...} is taken
AfterSend(p) ==
  CASE pc[p] = "t_send" -> IF runs[p] = 1 THEN "t_newticker" ELSE "t_tick"
    [] pc[p] = "l_send" -> "l_select"
    [] OTHER -> "done"

\* RecvOut that also receives between two iterations of the dispatch loop
RecvOut_early(p) ==
  /\ ~crashed
  /\ pcS \in {"select", "dispatch"}
  /\ pc[p] \in {"t_send", "l_send", "l_send_last"}
  /\ StoreRecord(cfg[p].Name, val[p])
  /\ recv' = [recv EXCEPT ![p] = Append(@, val[p])]
  /\ pcS' = "render_rec"
  /\ pc' = [pc EXCEPT ![p] = AfterSend(p)]
  /\ UNCHANGED <<cfg, errs, idx, result, out, mainCancelled, cancelCalled, panicked,
                 val, perr, runs, rdrVars, gen, onceRan, attempts>>

\* case o := <-outChan: the store, with the driver's outChan <- output{...}
RecvOut(p) ==
  /\ ~crashed
  /\ pcS = "select"
  /\ pc[p] \in {"t_send", "l_send", "l_send_last"}
  /\ StoreRecord(cfg[p].Name, val[p])
  /\ recv' = [recv EXCEPT ![p] = Append(@, val[p])]
  /\ pcS' = "render_rec"
  /\ pc' = [pc EXCEPT ![p] = AfterSend(p)]
  /\ UNCHANGED <<cfg, errs, idx, result, out, mainCancelled, cancelCalled, panicked,
                 val, perr, runs, rdrVars, gen, onceRan, attempts>>

\* mainCtx is cancelled from outside, while Spew runs a once command, renders
\* or waits in its select (the points between them take no time)
ExternalCancel ==
  /\ ~crashed
  /\ ~mainCancelled
  /\ pcS \in {"once_run", "render_once", "select", "render_rec"}
  /\ mainCancelled' = TRUE
  /\ UNCHANGED <<cfg, errs, supVars, panicked, drvVars, rdrVars, gen, supHist>>

\* ------------------------------------------------------------ runCommand
\* exec.CommandContext(ctx, ...).CombinedOutput() begins: a done ctx fails it at once
StartCommand(p) ==
  IF CtxDone
    THEN /\ pc' = [pc EXCEPT ![p] = "t_err"]
         /\ perr' = [perr EXCEPT ![p] = Err("run", p)]
         /\ UNCHANGED runs
    ELSE /\ pc' = [pc EXCEPT ![p] = "t_running"]
         /\ runs' = [runs EXCEPT ![p] = @ + 1]
         /\ UNCHANGED perr

\* ----------------------------------------------------------- timerSource
\* parts := strings.Split(s.Type, ":"); time.ParseDuration(parts[1]); the first run
TimerBegin(p) ==
  /\ ~crashed
  /\ pc[p] = "t_begin"
  /\ LET parts == Split(cfg[p].Type, ":") IN
       IF Len(parts) < 2
         THEN \* parts[1]: index out of range, the goroutine panics
              /\ panicked' = p
              /\ UNCHANGED <<pc, perr, runs>>
         ELSE IF ~ParseDuration(parts[2]).ok
           THEN /\ pc' = [pc EXCEPT ![p] = "t_err"]
                /\ perr' = [perr EXCEPT ![p] = Err("duration", p)]
                /\ UNCHANGED <<panicked, runs>>
           ELSE /\ StartCommand(p)
                /\ UNCHANGED panicked
  /\ UNCHANGED <<cfg, errs, supVars, mainCancelled, val, rdrVars, gen, supHist>>

\* runCommand returns: the output, or an error (the command failed or was killed)
TimerRunFinish(p) ==
  /\ ~crashed
  /\ pc[p] = "t_running"
  /\ \E ok \in BOOLEAN :
       IF ok THEN /\ val' = [val EXCEPT ![p] = RunOutput(cfg[p].Script, runs[p])]
                  /\ gen' = [gen EXCEPT ![p] = Append(@, RunOutput(cfg[p].Script, runs[p]))]
                  /\ pc' = [pc EXCEPT ![p] = "t_send"]
                  /\ UNCHANGED perr
             ELSE /\ perr' = [perr EXCEPT ![p] = Err("run", p)]
                  /\ pc' = [pc EXCEPT ![p] = "t_err"]
                  /\ UNCHANGED <<val, gen>>
  /\ UNCHANGED <<cfg, errs, supVars, mainCancelled, panicked, runs, rdrVars, supHist>>

\* ticker := time.NewTicker(d): panics when d is not positive
NewTicker(p) ==
  /\ ~crashed
  /\ pc[p] = "t_newticker"
  /\ IF ParseDuration(Split(cfg[p].Type, ":")[2]).d <= 0
       THEN panicked' = p /\ UNCHANGED pc
       ELSE pc' = [pc EXCEPT ![p] = "t_tick"] /\ UNCHANGED panicked
  /\ UNCHANGED <<cfg, errs, supVars, mainCancelled, val, perr, runs, rdrVars,
                 gen, supHist>>

\* case <-ticker.C: the next run
TimerTick(p) ==
  /\ ~crashed
  /\ pc[p] = "t_tick"
  /\ runs[p] < MaxRuns
  /\ StartCommand(p)
  /\ UNCHANGED <<cfg, errs, supVars, mainCancelled, panicked, val, rdrVars,
                 gen, supHist>>

\* case <-ctx.Done() of a driver's select: the driver returns
DriverDone(p) ==
  /\ ~crashed
  /\ pc[p] \in {"t_err", "t_send", "t_tick", "l_select", "l_err", "l_send", "l_send_last"}
  /\ CtxDone
  /\ pc' = [pc EXCEPT ![p] = "done"]
  /\ UNCHANGED <<cfg, errs, supVars, mainCancelled, panicked, val, perr, runs, rdrVars,
                 gen, supHist>>

\* -------------------------------------------------------- listenerSource
\* c.StdoutPipe(), c.StderrPipe(), c.Start(), the two readLines
ListenerBegin(p) ==
  /\ ~crashed
  /\ pc[p] = "l_begin"
  /\ \E r \in {"ok", "stdoutpipe", "stderrpipe", "start"} :
       IF r = "ok" /\ ~CtxDone
         THEN /\ proc' = [proc EXCEPT ![p] = "started"]
              /\ rpc' = [rpc EXCEPT ![p] = [s \in Streams |-> "read"]]
              /\ pc' = [pc EXCEPT ![p] = "l_select"]
              /\ UNCHANGED perr
         ELSE /\ perr' = [perr EXCEPT ![p] = Err(IF r = "ok" THEN "start" ELSE r, p)]
              /\ pc' = [pc EXCEPT ![p] = "l_err"]
              /\ UNCHANGED <<proc, rpc>>
  /\ UNCHANGED <<cfg, errs, supVars, mainCancelled, panicked, val, runs, ridx,
                 gen, supHist>>

\* case line := <-stdoutChan / <-stderrChan: the reader's ReadString returns
\* the next line the subprocess wrote and its outChan <- line is taken
ListenerRecvLine(p, s) ==
  /\ ~crashed
  /\ pc[p] = "l_select"
  /\ rpc[p][s] = "read"
  /\ Running(p)
  /\ ridx[p][s] < MaxLines
  /\ ridx' = [ridx EXCEPT ![p][s] = @ + 1]
  /\ val' = [val EXCEPT ![p] = StreamLine(s, ridx[p][s] + 1)]
  /\ gen' = [gen EXCEPT ![p] = Append(@, StreamLine(s, ridx[p][s] + 1))]
  /\ pc' = [pc EXCEPT ![p] = IF s = "out" THEN "l_send" ELSE "l_send_last"]
  /\ UNCHANGED <<cfg, errs, supVars, mainCancelled, panicked, perr, runs, proc, rpc,
                 supHist>>

\* case e := <-stdoutErrChan / <-stderrErrChan, with the reader's errChan <- err
ListenerRecvErr(p, s) ==
  /\ ~crashed
  /\ pc[p] = "l_select"
  /\ rpc[p][s] = "senderr"
  /\ perr' = [perr EXCEPT ![p] = Err("read", p)]
  /\ pc' = [pc EXCEPT ![p] = "l_err"]
  /\ rpc' = [rpc EXCEPT ![p][s] = "closed"]
  /\ UNCHANGED <<cfg, errs, supVars, mainCancelled, panicked, val, runs, proc, ridx,
                 gen, supHist>>

\* a receive from a channel its reader has closed yields the zero value:
\* the line "" or the error nil
ListenerRecvClosed(p, s) ==
  /\ ~crashed
  /\ pc[p] = "l_select"
  /\ rpc[p][s] = "closed"
  /\ \E ch \in {"line", "err"} :
       IF ch = "line"
         THEN /\ Len(SelectSeq(gen[p], LAMBDA v : v = <<>>)) < MaxZeros
              /\ val' = [val EXCEPT ![p] = <<>>]
              /\ gen' = [gen EXCEPT ![p] = Append(@, <<>>)]
              /\ pc' = [pc EXCEPT ![p] = IF s = "out" THEN "l_send" ELSE "l_send_last"]
              /\ UNCHANGED perr
         ELSE /\ perr' = [perr EXCEPT ![p] = Nil]
              /\ pc' = [pc EXCEPT ![p] = "l_err"]
              /\ UNCHANGED <<val, gen>>
  /\ UNCHANGED <<cfg, errs, supVars, mainCancelled, panicked, runs, rdrVars,
                 supHist>>

\* ------------------------------------------------------------- readLines
\* bufr.ReadString('\n') returns an error: the stream ended or the read failed
ReadErr(p, s) ==
  /\ ~crashed
  /\ rpc[p][s] = "read"
  /\ rpc' = [rpc EXCEPT ![p][s] = "senderr"]
  /\ UNCHANGED <<cfg, errs, supVars, mainCancelled, panicked, drvVars, proc, ridx,
                 gen, supHist>>

\* case <-ctx.Done() of a reader's select: it returns, closing its channels
ReaderDone(p, s) ==
  /\ ~crashed
  /\ rpc[p][s] = "senderr"
  /\ CtxDone
  /\ rpc' = [rpc EXCEPT ![p][s] = "closed"]
  /\ UNCHANGED <<cfg, errs, supVars, mainCancelled, panicked, drvVars, proc, ridx,
                 gen, supHist>>

\* ------------------------------------------------------------ the program
\* the steps of the program itself
ProgNext ==
  \/ ParseTemplate
  \/ Dispatch
  \/ OnceFinish
  \/ Render
  \/ SelectDone
  \/ \E p \in Srcs : RecvErr(p)
  \/ \E p \in Srcs : RecvOut(p)
  \/ \E p \in Srcs : TimerBegin(p)
  \/ \E p \in Srcs : TimerRunFinish(p)
  \/ \E p \in Srcs : NewTicker(p)
  \/ \E p \in Srcs : TimerTick(p)
  \/ \E p \in Srcs : DriverDone(p)
  \/ \E p \in Srcs : ListenerBegin(p)
  \/ \E p \in Srcs, s \in Streams : ListenerRecvLine(p, s)
  \/ \E p \in Srcs, s \in Streams : ListenerRecvErr(p, s)
  \/ \E p \in Srcs, s \in Streams : ListenerRecvClosed(p, s)
  \/ \E p \in Srcs, s \in Streams : ReadErr(p, s)
  \/ \E p \in Srcs, s \in Streams : ReaderDone(p, s)

Next == ProgNext \/ ExternalCancel

Spec == Init /\ [][Next]_vars

\* ------------------------------------------------------------ vocabulary
Returned == pcS = "returned"
IsError(e) == e # NoResult /\ e # Nil
IsPrefix(a, b) == Len(a) <= Len(b) /\ a = SubSeq(b, 1, Len(a))
Last(q) == q[Len(q)]

\* a driver or reader holds an error it met, or has panicked on one
ErrorMet(p) ==
  \/ pc[p] \in {"t_err", "l_err"} /\ perr[p] # Nil
  \/ panicked = p
  \/ \E s \in Streams : rpc[p][s] = "senderr"

\* every goroutine the run started has ended
AllTerminated ==
  /\ Returned
  /\ \A p \in Srcs : pc[p] \in {"idle", "done"}
  /\ \A p \in Srcs, s \in Streams : rpc[p][s] \in {"idle", "closed"}

\* ------------------------------------------------------------------ C1
\* C1 (as claimed): once mainCtx has been cancelled during the run - while a
\* once command runs, during a render or while Spew waits in its select -
\* Spew returns nil, never an error.
C1_CancelReturnsNil ==
  (Returned /\ mainCancelled) => result = Nil

\* ------------------------------------------------------------------ C2
\* a driver's send of an error on errChan completes in this step
ErrSendCompletes ==
  \E p \in Srcs : /\ pc[p] \in {"t_err", "l_err"}
                  /\ pcS = "select"
                  /\ pcS' = "returned"
                  /\ pc'[p] = "done"
                  /\ result' = perr[p]

\* C2 (as claimed): once ctx is done no record is received and stored, no
\* error send completes, and Spew stores and renders nothing more.
C2_NothingAfterCancel ==
  [][CtxDone => /\ recv' = recv
                /\ table' = table
                /\ out' = out
                /\ attempts' = attempts
                /\ ~ErrSendCompletes]_vars

\* ------------------------------------------------------------------ C3
\* C3 (as claimed): when a listener's subprocess has written a line to its
\* error stream and mainCtx is not cancelled, the run ends with an error:
\* Spew has returned a non-nil error, or the program can still take a step
\* towards it (it is not left waiting forever).
C3_StderrLineIsFatal ==
  \A p \in Srcs :
    (ridx[p]["err"] > 0 /\ ~mainCancelled /\ ~crashed)
      => (IsError(result) \/ ENABLED ProgNext)

\* ------------------------------------------------------------------ C4
\* C4 (as claimed): when a producer has met an error and mainCtx is not
\* cancelled, the error reaches Spew, which returns a non-nil error: Spew has
\* returned one, or the program can still take a step towards it.
C4_ProducerErrorSurfaces ==
  ((\E p \in Srcs : ErrorMet(p)) /\ ~mainCancelled) => (IsError(result) \/ ENABLED ProgNext)

\* ------------------------------------------------------------------ C5
\* the type contains none of "timer", "listen", "once"
UnknownType(t) ==
  /\ ~Contains(t, <<"t", "i", "m", "e", "r">>)
  /\ ~Contains(t, <<"l", "i", "s", "t", "e", "n">>)
  /\ ~Contains(t, <<"o", "n", "c", "e">>)

HasUnknown == \E i \in Srcs : UnknownType(cfg[i].Type)
FirstUnknown == CHOOSE i \in Srcs : UnknownType(cfg[i].Type) /\ \A j \in 1..(i - 1) : ~UnknownType(cfg[j].Type)

\* source j has been dispatched: its driver launched, or its once command started
Dispatched(j) == pc[j] # "idle" \/ j \in onceRan

\* C5 (as claimed): with a source of unknown type in the list, Spew returns
\* the unsupported-type error, and no other source, earlier or later in the
\* list, has been launched or run.
C5_NothingDispatched ==
  (HasUnknown /\ result[1] = "unsupported") =>
     \A j \in Srcs \ {FirstUnknown} : ~Dispatched(j)

\* C5 (amended): Spew never gets past the first source of unknown type; when
\* its dispatch reaches that source it returns the unsupported-type error, no
\* source after it has been launched or run, and every source before it has
\* been: its driver launched, or its once command run.
C5_FailsAtFirstUnknown ==
  /\ HasUnknown => (idx <= FirstUnknown /\ pcS # "select")
  /\ result[1] = "unsupported" =>
       /\ HasUnknown
       /\ result[2] = FirstUnknown
       /\ Returned
       /\ \A j \in Srcs : j > FirstUnknown => ~Dispatched(j)
       /\ \A j \in Srcs : j < FirstUnknown => Dispatched(j)
  /\ (HasUnknown /\ Returned /\ idx = FirstUnknown /\ result # Err("template", 0))
       => result[1] = "unsupported"

\* an unknown type after a launched driver has failed the run
C5_Witness ==
  /\ Len(cfg) = 2
  /\ result = Err("unsupported", 2)
  /\ pc[1] # "idle"

\* ------------------------------------------------------------------ C6
\* the lines of a listener's output stream among the values q
StdoutLines(q) == SelectSeq(q, LAMBDA v : v # <<>> /\ Head(v) # "!")

\* C6: the values Spew has received from a source are a prefix of the values
\* its driver produced, at most one record behind; a timer's are the outputs
\* of its first runs in order; the output lines received from a listener are
\* the first lines its subprocess wrote, in order.
C6_PerSourceOrder ==
  \A p \in Srcs :
    /\ IsPrefix(recv[p], gen[p])
    /\ Len(gen[p]) <= Len(recv[p]) + 1
    /\ SourceKind(cfg[p]) = "timer" => recv[p] = [k \in 1..Len(recv[p]) |-> CmdOutput(k)]
    /\ SourceKind(cfg[p]) = "listen" =>
         StdoutLines(recv[p]) = [k \in 1..Len(StdoutLines(recv[p])) |-> StreamLine("out", k)]

\* a listener's lines a, b arrived in order with a timer's record between them
C6_Witness ==
  \E p \in Srcs, q \in Srcs :
    /\ p # q
    /\ recv[p] = <<StreamLine("out", 1), StreamLine("out", 2)>>
    /\ Len(recv[q]) = 1
    /\ Len(out) = 3
    /\ out[1][1] = <<"a">> /\ out[2][1] = <<"a">> /\ out[2][2] = <<"1">> /\ out[3][1] = <<"b">>

\* ------------------------------------------------------------------ C7
Rendering == pcS \in {"render_once", "render_rec"}

\* the stores Spew has made: one per once result, one per record received
RECURSIVE SumLen(_, _)
SumLen(f, n) == IF n = 0 THEN 0 ELSE Len(f[n]) + SumLen(f, n - 1)

OnceStored ==
  Cardinality({j \in onceRan : j < idx \/ (j = idx /\ pcS = "render_once")
                                \/ (j = idx /\ result = Err("render", 0))})

Stores == SumLen(recv, Len(cfg)) + OnceStored

C7_Counts ==
  /\ attempts + (IF Rendering THEN 1 ELSE 0) = Stores
  /\ Len(out) <= attempts
  /\ attempts <= Len(out) + 1
  /\ attempts = Len(out) + 1 => result = Err("render", 0)
  /\ (Len(out) > 0 /\ ~Rendering /\ result # Err("render", 0)) => Last(out) = Execute(table)

C7_Steps ==
  \* a record received is stored under Title(name) as sanitize(value), the rest is kept
  /\ (pcS = "select" /\ pcS' = "render_rec") =>
        \E p \in Srcs :
           /\ recv'[p] = Append(recv[p], val[p])
           /\ DOMAIN table' = DOMAIN table \cup {Title(cfg[p].Name)}
           /\ table'[Title(cfg[p].Name)] = sanitize(val[p])
           /\ \A k \in DOMAIN table \ {Title(cfg[p].Name)} : table'[k] = table[k]
  \* the render comes next, before any other event, and shows that table
  /\ Rendering => /\ recv' = recv /\ table' = table
                  /\ pcS' # pcS => attempts' = attempts + 1
                  /\ pcS' \in {"dispatch", "select"} => out' = Append(out, Execute(table))
  \* no render without a store before it
  /\ (attempts' # attempts \/ out' # out) => Rendering

\* C7: every record received is stored as Title(name) -> sanitize(value) with
\* the other keys kept, and is followed by exactly one render, of that table,
\* before Spew takes another event; there is no render without a once result
\* or a record before it.
C7_OneRenderPerRecord == []C7_Counts /\ [][C7_Steps]_vars

\* two sources have been rendered, the second over the first
C7_Witness ==
  /\ pcS = "select"
  /\ Len(out) >= 2
  /\ DOMAIN table = {<<"A">>, <<"B">>}
  /\ Last(out) = <<table[<<"A">>], table[<<"B">>]>>
  /\ \E p \in Srcs : Len(recv[p]) >= 1

\* ------------------------------------------------------------------ C8
\* C8 (as claimed): after ctx is done Spew returns and every driver and
\* reader ends: the run is never left with no step to take before Spew has
\* returned and every goroutine has ended (by returning, or with the process).
C8_AllEndAfterCancel ==
  CtxDone => \/ AllTerminated
             \/ Returned /\ crashed
             \/ ENABLED ProgNext

\* ------------------------------------------------------------------ C9
\* C9: whenever Spew has returned after creating ctx (any return but the
\* template parse error), ctx is done.
C9_CancelOnEveryReturn ==
  (Returned /\ result # Err("template", 0)) => CtxDone

\* Spew returned a driver's error, with no cancellation from outside
C9_Witness ==
  /\ Returned
  /\ ~mainCancelled
  /\ result[1] \in {"run", "duration", "read", "start"}
  /\ CtxDone

\* ----------------------------------------------------------------- C10
\* the timer's type has no duration after a ':' or one that does not parse
BadDuration(t) ==
  \/ Len(Split(t, ":")) < 2
  \/ ~ParseDuration(Split(t, ":")[2]).ok

\* C10 (as claimed): a timer whose duration is absent or unparsable emits no
\* record and fails through the run's result: its driver holds the error for
\* Spew or has ended, and the process has not panicked on it.
C10_BadDurationIsRunError ==
  \A p \in Srcs :
    (SourceKind(cfg[p]) = "timer" /\ BadDuration(cfg[p].Type)) =>
       /\ gen[p] = <<>>
       /\ pc[p] \in {"idle", "t_begin", "t_err", "done"}
       /\ panicked # p

\* ----------------------------------------------------------------- C11
\* every source of the configuration is a once source
AllOnce == \A i \in Srcs : SourceKind(cfg[i]) = "once"

\* the dispatch loop is over: Spew is in its event loop or has left it
SetupDone == idx > Len(cfg) /\ pcS \in {"select", "returned"}

\* the last of the first n sources that is stored under key k
LastNamed(k, n) ==
  CHOOSE j \in 1..n : /\ Title(cfg[j].Name) = k
                      /\ \A i \in (j + 1)..n : Title(cfg[i].Name) # k

\* the table after the first n once sources: a key holds the sanitized
\* output of the last of them stored under it
OnceTable(n) ==
  [k \in {Title(cfg[j].Name) : j \in 1..n} |-> sanitize(CmdOutput(LastNamed(k, n)))]

\* C11 (as claimed): for a configuration of once sources only, once setup is
\* done there is exactly one render per source, the table maps Title(name) to
\* sanitize(output) for every configured source, and the last render is the
\* template evaluated on it.
C11_EverySourceInTable ==
  (AllOnce /\ SetupDone) =>
     /\ Len(out) = Len(cfg)
     /\ \A i \in Srcs : /\ Title(cfg[i].Name) \in DOMAIN table
                         /\ table[Title(cfg[i].Name)] = sanitize(CmdOutput(i))
     /\ Len(out) > 0 => Last(out) = Execute(table)

\* C11 (amended): for a configuration of once sources only, the i-th render
\* is the template evaluated on the table after the first i sources, where a
\* key holds the output of the last source stored under it; there is never
\* more than one render per source, and once setup is done there is exactly
\* one per source, the table is the table after all of them, and the event
\* loop adds no render.
C11_OnceRendersInOrder ==
  AllOnce =>
     /\ Len(out) <= Len(cfg)
     /\ \A i \in 1..Len(out) : out[i] = Execute(OnceTable(i))
     /\ SetupDone => /\ Len(out) = Len(cfg)
                     /\ DOMAIN table = DOMAIN OnceTable(Len(cfg))
                     /\ \A k \in DOMAIN table : table[k] = OnceTable(Len(cfg))[k]

\* two once sources with different names are set up, and Spew returned from
\* its event loop on a cancellation
C11_Witness ==
  /\ AllOnce
  /\ Len(cfg) = 2
  /\ cfg[1].Name # cfg[2].Name
  /\ result = Nil
  /\ out = <<<<<<"1">>, NoValue>>, <<<<"1">>, <<"2">>>>>>

\* ----------------------------------------------------------------- C12
\* types that mix the three keywords, in both orders and in both cases
KindTypes ==
  Types \cup
  {<<>>,
   <<"o", "n", "c", "e", "t", "i", "m", "e", "r", ":", "5", "s">>,
   <<"l", "i", "s", "t", "e", "n", "t", "i", "m", "e", "r", ":", "5", "s">>,
   <<"t", "i", "m", "e", "r", ":", "5", "s", "o", "n", "c", "e">>,
   <<"t", "i", "m", "e", "r", "l", "i", "s", "t", "e", "n", ":", "5", "s">>,
   <<"o", "n", "c", "e", "l", "i", "s", "t", "e", "n">>,
   <<"l", "i", "s", "t", "e", "n", "o", "n", "c", "e">>,
   <<"x", "o", "n", "c", "e", "x">>,
   <<"T", "i", "m", "e", "r", ":", "5", "s">>,
   <<"T", "i", "m", "e", "r", ":", "5", "s", "o", "n", "c", "e">>,
   <<"L", "i", "s", "t", "e", "n">>,
   <<"L", "I", "S", "T", "E", "N", "o", "n", "c", "e">>,
   <<"O", "n", "c", "e">>,
   <<"t", "i", "m", "e", " ", "r">>,
   <<"o", "n", "c">>}

\* one source of any of these types
KindConfig ==
  {<<[Name |-> <<"a">>, Type |-> t, Script |-> <<"s", "h">>]>> : t \in KindTypes}

KindInit == InitFrom(KindConfig)
KindSpec == KindInit /\ [][Next]_vars

\* Spew's dispatch loop handles the source idx in this step
DispatchStep == pcS = "dispatch" /\ idx <= Len(cfg) /\ (idx' # idx \/ pcS' # pcS)

HasTimer(t) == Contains(t, <<"t", "i", "m", "e", "r">>)
HasListen(t) == Contains(t, <<"l", "i", "s", "t", "e", "n">>)
HasOnce(t) == Contains(t, <<"o", "n", "c", "e">>)

\* C12: when the dispatch loop handles a source, a type containing "timer"
\* launches the timer driver whatever else it contains; otherwise a type
\* containing "listen" launches the listener driver; otherwise a type
\* containing "once" runs the command inline; any other type, a keyword in
\* another case included, makes Spew return the unsupported-type error.
C12_Step ==
  DispatchStep =>
    LET t == cfg[idx].Type IN
      /\ HasTimer(t) => pc'[idx] = "t_begin" /\ idx' = idx + 1 /\ onceRan' = onceRan
      /\ (~HasTimer(t) /\ HasListen(t)) =>
            pc'[idx] = "l_begin" /\ idx' = idx + 1 /\ onceRan' = onceRan
      /\ (~HasTimer(t) /\ ~HasListen(t) /\ HasOnce(t)) =>
            /\ pc' = pc
            /\ \/ pcS' = "once_run" /\ idx \in onceRan'
               \/ result' = Err("once", idx)
      /\ (~HasTimer(t) /\ ~HasListen(t) /\ ~HasOnce(t)) =>
            /\ result' = Err("unsupported", idx)
            /\ pcS' = "returned"
            /\ pc' = pc /\ onceRan' = onceRan

C12_DispatchPriority == [][C12_Step]_vars

\* a source of type "oncetimer:5s" ran as a timer and its record was received
C12_Witness ==
  /\ cfg[1].Type = <<"o", "n", "c", "e", "t", "i", "m", "e", "r", ":", "5", "s">>
  /\ recv[1] = <<CmdOutput(1)>>
  /\ onceRan = {}

\* ----------------------------------------------------------------- C13
\* the texts of at most MaxLen characters over a letter, '\n' and '\r'
SanStrings == UNION {[1..n -> {"a", "\n", "\r"}] : n \in 0..MaxLen}

\* one source of any type running "sh", or a once or timer source whose
\* script prints one of these texts
SanConfig ==
  {<<[Name |-> <<"a">>, Type |-> t, Script |-> <<"s", "h">>]>> : t \in Types}
  \cup {<<[Name |-> <<"a">>, Type |-> t, Script |-> x]>> : t \in {T_once, T_timer5s}, x \in SanStrings}

SanInit == InitFrom(SanConfig)
SanSpec == SanInit /\ [][Next]_vars

NoLineBreak(s) == \A i \in 1..Len(s) : s[i] # "\n" /\ s[i] # "\r"

\* C13: for every text a command prints and every value a driver holds,
\* sanitize applied twice gives what it gives once, and its result has no
\* '\n' and no '\r' and keeps every other character in order; every value
\* in the table is free of '\n' and '\r' and is left as it is by sanitize.
C13_SanitizeIdempotent ==
  /\ \A p \in Srcs : \A s \in {cfg[p].Script, val[p], RunOutput(cfg[p].Script, 1)} :
        /\ sanitize(sanitize(s)) = sanitize(s)
        /\ NoLineBreak(sanitize(s))
        /\ sanitize(s) = SelectSeq(s, LAMBDA c : c \notin {"\n", "\r"})
  /\ \A k \in DOMAIN table : NoLineBreak(table[k]) /\ sanitize(table[k]) = table[k]

\* the text "\r a \n" printed by a once command is stored as "a"
C13_Witness ==
  /\ cfg[1].Script = <<"\r", "a", "\n">>
  /\ cfg[1].Type = T_once
  /\ DOMAIN table = {<<"A">>}
  /\ table[<<"A">>] = <<"a">>
  /\ Len(out) = 1

\* ----------------------------------------------------------------- C14
\* a line reader of source p is still alive
ReaderAlive(p, s) == rpc[p][s] \in {"read", "senderr"}

\* C14 (as claimed, taken where no cancellation can excuse a delay): while
\* ctx is not done, a driver that has exited has no subprocess of its own
\* still running and no line reader of its own still alive.
C14_ExitedDriverOwnsNothing ==
  \A p \in Srcs :
    (pc[p] = "done" /\ ~CtxDone) => /\ ~Running(p)
                                    /\ \A s \in Streams : ~ReaderAlive(p, s)

\* ----------------------------------------------------------------- C15
\* Spew has not reached its event loop: it is in the dispatch loop, or has
\* returned from it
InSetup ==
  \/ pcS \in {"parse", "dispatch", "once_run", "render_once"}
  \/ Returned /\ idx <= Len(cfg)

OnceSources == {j \in Srcs : SourceKind(cfg[j]) = "once"}

\* C15: during setup Spew has received no record, and while ctx is not done
\* a driver that has produced a record holds it, blocked on its send; once a
\* record has been received every source has been dispatched and every once
\* source has run and been rendered, so all once renders come first.
C15_NoRecordBeforeLoop ==
  /\ InSetup =>
        \A p \in Srcs :
          /\ recv[p] = <<>>
          /\ (gen[p] # <<>> /\ ~CtxDone) =>
                /\ gen[p] = <<val[p]>>
                /\ pc[p] \in {"t_send", "l_send", "l_send_last"}
  /\ (\E p \in Srcs : recv[p] # <<>>) =>
        /\ idx > Len(cfg)
        /\ pcS \in {"select", "render_rec", "returned"}
        /\ \A j \in Srcs : Dispatched(j)
        /\ onceRan = OnceSources
        /\ OnceStored = Cardinality(OnceSources)
        /\ Len(out) >= Cardinality(OnceSources)
  /\ pcS \in {"once_run", "render_once"} => \A p \in Srcs : recv[p] = <<>>

\* a timer launched before a once source: the once render came first, the
\* timer's record was received and rendered after it
C15_Witness ==
  /\ Len(cfg) = 2
  /\ cfg[1].Type = T_timer5s /\ cfg[2].Type = T_once /\ cfg[2].Name = <<"b">>
  /\ recv[1] = <<CmdOutput(1)>>
  /\ out = <<<<NoValue, <<"2">>>>, <<<<"1">>, <<"2">>>>>>

\* ----------------------------------------------------------------- C16
\* C16 (as claimed): when a read on a listener's stream has failed (the
\* stream ended) and mainCtx is not cancelled, the error is forwarded and
\* Spew returns a non-nil error: it has returned one, or the program can
\* still take a step towards it.
C16_StreamEndIsFatal ==
  \A p \in Srcs, s \in Streams :
    (rpc[p][s] = "senderr" /\ ~mainCancelled /\ ~crashed)
      => (IsError(result) \/ ENABLED ProgNext)

\* ----------------------------------------------------------------- C17
C17_State ==
  \A p \in Srcs : /\ errs[p] <= 1
                   /\ errs[p] = 1 => pc[p] = "done" /\ Returned /\ result = perr[p]

C17_Step ==
  \A p \in Srcs :
    /\ errs'[p] # errs[p] => pc[p] \in {"t_err", "l_err"} /\ errs[p] = 0
    /\ errs[p] = 1 => /\ errs'[p] = 1
                      /\ pc'[p] = "done"
                      /\ gen'[p] = gen[p] /\ recv'[p] = recv[p]
                      /\ val'[p] = val[p] /\ perr'[p] = perr[p]

\* C17: a driver sends at most one error on errChan, from one of its error
\* sends; once it has sent one it has returned, and it produces and sends
\* nothing more.
C17_OneErrorPerDriver == []C17_State /\ [][C17_Step]_vars

\* a listener that had delivered a line sent a read error, with a timer beside it
C17_Witness ==
  \E p \in Srcs, q \in Srcs :
    /\ errs[p] = 1
    /\ result = Err("read", p)
    /\ Len(recv[p]) >= 1
    /\ pc[q] \in {"t_send", "t_tick", "t_err", "t_running"}

\* ----------------------------------------------------------------- C18
\* a step of Spew that stores: a once result in setup, or a record in the loop
SupervisorStore ==
  \/ pcS = "once_run" /\ pcS' = "render_once"
  \/ pcS = "select" /\ pcS' = "render_rec"

C18_Keys == DOMAIN table \subseteq {Title(cfg[i].Name) : i \in Srcs}

C18_Step ==
  /\ table' # table => SupervisorStore
  /\ ~SupervisorStore => table' = table
  /\ DOMAIN table \subseteq DOMAIN table'

\* C18: the table changes only in a storing step of Spew (a once result in
\* setup, a record in the event loop); every other step, of a timer, a
\* listener or a line reader, leaves it unchanged; its key set never
\* shrinks, and every key is Title(name) of a configured source.
C18_TableFrame == []C18_Keys /\ [][C18_Step]_vars

\* a timer's second record has overwritten its first under the same key
C18_Witness ==
  \E p \in Srcs :
    /\ recv[p] = <<CmdOutput(1), CmdOutput(2)>>
    /\ Len(cfg) = 1
    /\ DOMAIN table = {<<"A">>}
    /\ table[<<"A">>] = <<"2">>

\* ----------------------------------------------------------------- C19
\* C19 (as claimed): every record Spew has received from a listener is a
\* line read from its subprocess, never the empty string of a closed
\* channel, and an error a listener has delivered is not nil.
C19_NoZeroValueForwarded ==
  \A p \in Srcs :
    SourceKind(cfg[p]) = "listen" =>
      /\ \A i \in 1..Len(recv[p]) : recv[p][i] # <<>>
      /\ errs[p] = 1 => perr[p] # Nil

\* ----------------------------------------------------------------- C20
\* no source of the configuration is a timer or a listener
NoProducers == \A i \in Srcs : SourceKind(cfg[i]) \notin {"timer", "listen"}

\* C20: Spew has returned only if mainCtx was cancelled or its result is an
\* error; with no timer and no listener source and no cancellation, it has
\* returned only on a failure of setup or of a render, and once it is in
\* its event loop, after the last once render, no step of the program is
\* possible: it blocks until mainCtx is cancelled.
C20_ReturnsOnlyOnCancelOrError ==
  /\ Returned => (mainCancelled \/ IsError(result))
  /\ (NoProducers /\ ~mainCancelled /\ Returned) =>
        result[1] \in {"template", "once", "render", "unsupported"}
  /\ (NoProducers /\ ~mainCancelled /\ pcS = "select") =>
        /\ ~ENABLED ProgNext
        /\ Len(out) = Len(cfg)
        /\ result = NoResult

\* two once sources are rendered and Spew waits in its event loop
C20_Witness ==
  /\ Len(cfg) = 2
  /\ NoProducers
  /\ pcS = "select"
  /\ ~mainCancelled
  /\ Len(out) = 2

====
